---- MODULE Spec2Model ----
(***************************************************************************)
(* LongRead OneClickQC (src/oneclickapp.py): the read-parsing -> metrics   *)
(* -> summary -> filtering -> re-serialisation pipeline that runs when a   *)
(* file is uploaded, and the N50 calculator get_n50 as a pure function.    *)
(*                                                                         *)
(* Numbers that Python computes by true division (avg_quality, gc_content, *)
(* total / 2) are kept exact: a quotient n / d is the pair <<n, d>> and is *)
(* compared by cross-multiplication.                                       *)
(***************************************************************************)
EXTENDS Integers, Sequences, FiniteSets, TLC

VARIABLES
    pc,             \* position of the script body (lines 66-144)
    error,          \* the exception that ended the run, "none" while running
    raw_records,    \* line 70: the parsed records, in file order
    df,             \* line 71: the metrics table: its columns and its rows
    summary,        \* lines 77-84: the values handed to st.metric
    min_len,        \* line 88
    min_q,          \* line 89
    filtered_df,    \* line 90
    filtered_ids,   \* line 91
    filtered_fastq, \* line 140: the FASTQ blocks written, in order
    filtered_csv,   \* line 141: the CSV rows after the header row
    lengths,        \* get_n50: the argument
    n50pc,          \* get_n50: "call" before the call, "done" after it
    n50             \* get_n50: the value returned

vars == <<pc, error, raw_records, df, summary, min_len, min_q, filtered_df,
          filtered_ids, filtered_fastq, filtered_csv, lengths, n50pc, n50>>

pipelineVars == <<pc, error, raw_records, df, summary, min_len, min_q,
                  filtered_df, filtered_ids, filtered_fastq, filtered_csv>>

n50Vars == <<lengths, n50pc, n50>>

(***************************************************************************)
(* Bounds of the model.                                                    *)
(***************************************************************************)
\* the longest uploaded file, in records
MaxRecords == 2
\* the longest list of lengths handed to get_n50
MaxLens == 3

\* the lengths get_n50 is tried on
LengthChoices == {0, 1, 2, 3, 100, 200, 300}

None == "none"

(***************************************************************************)
(* Helpers on sequences.                                                   *)
(***************************************************************************)
RECURSIVE SumSeq(_)
SumSeq(s) == IF s = <<>> THEN 0 ELSE Head(s) + SumSeq(Tail(s))

SeqsUpTo(S, n) == UNION {[1..k -> S] : k \in 0..n}

MaxOf(s) == CHOOSE x \in {s[i] : i \in 1..Len(s)} :
                \A j \in 1..Len(s) : s[j] <= x

MinOf(s) == CHOOSE x \in {s[i] : i \in 1..Len(s)} :
                \A j \in 1..Len(s) : x <= s[j]

(***************************************************************************)
(* get_n50, lines 44-52.                                                   *)
(***************************************************************************)
\* insert x into a descending sequence, after the elements equal to it
RECURSIVE InsertDesc(_, _)
InsertDesc(x, s) ==
    IF s = <<>> THEN <<x>>
    ELSE IF x > Head(s) THEN <<x>> \o s
    ELSE <<Head(s)>> \o InsertDesc(x, Tail(s))

RECURSIVE SortRec(_)
SortRec(s) ==
    IF s = <<>> THEN <<>>
    ELSE InsertDesc(s[Len(s)], SortRec(SubSeq(s, 1, Len(s) - 1)))

\* a get_n50 that forgets to sort
Unsorted(s) == s

\* line 45: sorted(lengths, reverse=True)
SortedDesc(s) == SortRec(s)

\* a loop that returns at cum_sum > total / 2
RECURSIVE N50LoopStrict(_, _, _, _)
N50LoopStrict(sorted_lens, total, cum_sum, i) ==
    IF i > Len(sorted_lens) THEN 0
    ELSE LET l == sorted_lens[i]
             c == cum_sum + l
         IN IF 2 * c > total THEN l
            ELSE N50LoopStrict(sorted_lens, total, c, i + 1)

\* a loop that returns the running sum instead of the length
RECURSIVE N50LoopCum(_, _, _, _)
N50LoopCum(sorted_lens, total, cum_sum, i) ==
    IF i > Len(sorted_lens) THEN 0
    ELSE LET l == sorted_lens[i]
             c == cum_sum + l
         IN IF 2 * c >= total THEN c
            ELSE N50LoopCum(sorted_lens, total, c, i + 1)

\* lines 47-52: the loop from position i on, with cum_sum accumulated so far;
\* cum_sum >= total / 2 is 2 * cum_sum >= total
RECURSIVE N50Rec(_, _, _, _)
N50Rec(sorted_lens, total, cum_sum, i) ==
    IF i > Len(sorted_lens) THEN 0
    ELSE LET l == sorted_lens[i]
             c == cum_sum + l
         IN IF 2 * c >= total THEN l
            ELSE N50Rec(sorted_lens, total, c, i + 1)

N50Loop(sorted_lens, total, cum_sum, i) == N50Rec(sorted_lens, total, cum_sum, i)

get_n50(ls) ==
    LET sorted_lens == SortedDesc(ls)
        total == SumSeq(sorted_lens)
    IN N50Loop(sorted_lens, total, 0, 1)

(***************************************************************************)
(* The uploaded files the pipeline is run on.  A record is what SeqIO      *)
(* yields: id, seq and the phred_quality letter annotation, one score per  *)
(* base.  A sequence is a two-base unit repeated, so that reads reach the  *)
(* slider's smallest minimum length.                                       *)
(***************************************************************************)
Ids == {"r1", "r2"}

Units == {<<"G", "C">>, <<"A", "T">>, <<"g", "c">>}

RepeatCounts == {0, 1, 25, 50}

\* the scores of the bases at odd and at even positions
QualPatterns == {<<9, 10>>, <<10, 10>>}

Repeat(unit, n) == [i \in 1..(Len(unit) * n) |-> unit[((i - 1) % Len(unit)) + 1]]

Records ==
    {[id |-> d, seq |-> Repeat(u, n), quals |-> Repeat(q, n)] :
        d \in Ids, u \in Units, n \in RepeatCounts, q \in QualPatterns}

Files == SeqsUpTo(Records, MaxRecords)

\* line 88: st.slider("Minimum Read Length", 50, 10000, 100)
SliderMinLen == 50
SliderMaxLen == 10000
SliderDefaultLen == 100
\* line 89: st.slider("Minimum Avg Quality", 0, 40, 10)
SliderMinQ == 0
SliderMaxQ == 40
SliderDefaultQ == 10

MinLenChoices ==
    {x \in {SliderMinLen, SliderMinLen + 1, SliderDefaultLen} : x <= SliderMaxLen}

MinQChoices == {x \in {SliderMinQ, SliderDefaultQ} : x <= SliderMaxQ}

(***************************************************************************)
(* fastq_to_df, lines 29-41.                                               *)
(***************************************************************************)
\* Seq.count(c): the positions of s that hold exactly the character c
Count(s, c) == Cardinality({i \in 1..Len(s) : s[i] = c})

\* line 33: sum(quals)/len(quals) if quals else 0
AvgQ(quals) == IF quals # <<>> THEN <<SumSeq(quals), Len(quals)>> ELSE <<0, 1>>

\* line 34: rec.seq.count("G") + rec.seq.count("C")
GcCount(seq) == Count(seq, "G") + Count(seq, "C")

\* line 34: 100 * (...) / len(rec.seq), defined when len(rec.seq) # 0
Gc(seq) == <<100 * GcCount(seq), Len(seq)>>

\* lines 35-40: the row of the record at position i (pandas index i - 1)
MetricRow(rec, i) ==
    [index |-> i - 1,
     id |-> rec.id,
     length |-> Len(rec.seq),
     avg_quality |-> AvgQ(rec.quals),
     gc_content |-> Gc(rec.seq)]

MetricColumns == {"id", "length", "avg_quality", "gc_content"}

\* the division of line 34 raises on the first record with an empty sequence;
\* pd.DataFrame([]) has no columns
fastq_to_df(records) ==
    IF \E i \in 1..Len(records) : Len(records[i].seq) = 0
    THEN [raised |-> "ZeroDivisionError"]
    ELSE [raised |-> None,
          value |-> [columns |-> IF records = <<>> THEN {} ELSE MetricColumns,
                     rows |-> [i \in 1..Len(records) |-> MetricRow(records[i], i)]]]

\* a quotient <<n, d>> (d > 0) compared with an integer
QuotGeq(q, m) == q[1] >= m * q[2]

(***************************************************************************)
(* The script body, lines 66-144.                                          *)
(***************************************************************************)
EmptyDf == [columns |-> {}, rows |-> <<>>]

Init ==
    /\ pc = "uploaded"
    /\ error = None
    /\ raw_records = <<>>
    /\ df = EmptyDf
    /\ summary = None
    /\ min_len = None
    /\ min_q = None
    /\ filtered_df = EmptyDf
    /\ filtered_ids = {}
    /\ filtered_fastq = <<>>
    /\ filtered_csv = <<>>
    /\ lengths = <<>>
    /\ n50pc = "idle"
    /\ n50 = None

\* line 70: raw_records = list(parse_fastq(uploaded_file))
Parse ==
    /\ pc = "uploaded"
    /\ \E f \in Files : raw_records' = f
    /\ pc' = "parsed"
    /\ UNCHANGED <<error, df, summary, min_len, min_q, filtered_df,
                   filtered_ids, filtered_fastq, filtered_csv, n50Vars>>

\* line 71: df = fastq_to_df(raw_records)
FastqToDf ==
    /\ pc = "parsed"
    /\ LET r == fastq_to_df(raw_records)
       IN IF r.raised # None
          THEN /\ pc' = "error"
               /\ error' = r.raised
               /\ UNCHANGED df
          ELSE /\ pc' = "metrics"
               /\ df' = r.value
               /\ UNCHANGED error
    /\ UNCHANGED <<raw_records, summary, min_len, min_q, filtered_df,
                   filtered_ids, filtered_fastq, filtered_csv, n50Vars>>

Column(table, c) == [i \in 1..Len(table.rows) |-> table.rows[i][c]]

\* Series.median() of integers, then int(): the middle of the ascending
\* values, or the mean of the two middle ones truncated
Median(ls) ==
    LET s == SortedDesc(ls)
        n == Len(s)
    IN IF n % 2 = 1 THEN s[(n + 1) \div 2]
       ELSE (s[n \div 2] + s[(n \div 2) + 1]) \div 2

\* lines 74-84: df['length'] raises KeyError when the table has no columns
Summary ==
    /\ pc = "metrics"
    /\ IF "length" \notin df.columns
       THEN /\ pc' = "error"
            /\ error' = "KeyError"
            /\ UNCHANGED summary
       ELSE LET ls == Column(df, "length")
            IN /\ summary' = [total_reads |-> Len(df.rows),
                              total_bases |-> SumSeq(ls),
                              mean_length |-> <<SumSeq(ls), Len(ls)>>,
                              max_length |-> MaxOf(ls),
                              n50 |-> get_n50(ls),
                              median_length |-> Median(ls)]
               /\ pc' = "summary"
               /\ UNCHANGED error
    /\ UNCHANGED <<raw_records, df, min_len, min_q, filtered_df,
                   filtered_ids, filtered_fastq, filtered_csv, n50Vars>>

\* the row passes both thresholds of line 90
Passes(row, ml, mq) == row.length >= ml /\ QuotGeq(row.avg_quality, mq)

\* a filter that removes from the list it is iterating over
RECURSIVE RemoveWhileIterating(_, _, _, _)
RemoveWhileIterating(rows, ml, mq, i) ==
    IF i > Len(rows) THEN rows
    ELSE IF Passes(rows[i], ml, mq)
         THEN RemoveWhileIterating(rows, ml, mq, i + 1)
         ELSE RemoveWhileIterating(
                  SubSeq(rows, 1, i - 1) \o SubSeq(rows, i + 1, Len(rows)),
                  ml, mq, i + 1)

FilterRowsSkipping(rows, ml, mq) == RemoveWhileIterating(rows, ml, mq, 1)

\* a filter with length > min_len
FilterRowsStrict(rows, ml, mq) ==
    SelectSeq(rows, LAMBDA r : r.length > ml /\ QuotGeq(r.avg_quality, mq))

\* line 90: df[(df["length"] >= min_len) & (df["avg_quality"] >= min_q)],
\* the rows of df whose mask entry is True, index labels kept
FilterRows(rows, ml, mq) == SelectSeq(rows, LAMBDA r : Passes(r, ml, mq))

\* lines 88-92
Filter ==
    /\ pc = "summary"
    /\ \E ml \in MinLenChoices, mq \in MinQChoices :
        /\ min_len' = ml
        /\ min_q' = mq
        /\ IF {"length", "avg_quality"} \subseteq df.columns
           THEN /\ filtered_df' = [columns |-> df.columns,
                                   rows |-> FilterRows(df.rows, ml, mq)]
                /\ filtered_ids' = {filtered_df'.rows[i].id :
                                        i \in 1..Len(filtered_df'.rows)}
                /\ pc' = "filtered"
                /\ UNCHANGED error
           ELSE /\ pc' = "error"
                /\ error' = "KeyError"
                /\ UNCHANGED <<filtered_df, filtered_ids>>
    /\ UNCHANGED <<raw_records, df, summary, filtered_fastq, filtered_csv,
                   n50Vars>>

\* line 116: SeqIO.write(rec, output, "fastq"), the four lines of one block;
\* the quality line holds the characters chr(q + 33)
FastqBlock(rec) ==
    [title |-> rec.id,
     seq |-> rec.seq,
     sep |-> "+",
     qual |-> [i \in 1..Len(rec.quals) |-> rec.quals[i] + 33]]

\* lines 112-118: write_fastq_bytes
write_fastq_bytes(records, ids) ==
    LET kept == SelectSeq(records, LAMBDA rec : rec.id \in ids)
    IN [i \in 1..Len(kept) |-> FastqBlock(kept[i])]

\* line 141: filtered_df.to_csv(index=False), the rows below the header
to_csv(table) ==
    [i \in 1..Len(table.rows) |->
        <<table.rows[i].id, table.rows[i].length,
          table.rows[i].avg_quality, table.rows[i].gc_content>>]

\* lines 139-144
Download ==
    /\ pc = "filtered"
    /\ filtered_fastq' = write_fastq_bytes(raw_records, filtered_ids)
    /\ filtered_csv' = to_csv(filtered_df)
    /\ pc' = "done"
    /\ UNCHANGED <<error, raw_records, df, summary, min_len, min_q,
                   filtered_df, filtered_ids, n50Vars>>

Next == Parse \/ FastqToDf \/ Summary \/ Filter \/ Download

Spec == Init /\ [][Next]_vars

(***************************************************************************)
(* get_n50 called on its own.                                              *)
(***************************************************************************)
InitN50 ==
    /\ pc = "idle"
    /\ error = None
    /\ raw_records = <<>>
    /\ df = EmptyDf
    /\ summary = None
    /\ min_len = None
    /\ min_q = None
    /\ filtered_df = EmptyDf
    /\ filtered_ids = {}
    /\ filtered_fastq = <<>>
    /\ filtered_csv = <<>>
    /\ lengths \in SeqsUpTo(LengthChoices, MaxLens)
    /\ n50pc = "call"
    /\ n50 = None

CallGetN50 ==
    /\ n50pc = "call"
    /\ n50' = get_n50(lengths)
    /\ n50pc' = "done"
    /\ UNCHANGED <<lengths, pipelineVars>>

NextN50 == CallGetN50

SpecN50 == InitN50 /\ [][NextN50]_vars

(***************************************************************************)
(* The claims.                                                             *)
(***************************************************************************)
Ran == {"metrics", "summary", "filtered", "done"}

\* the records whose own row passes the thresholds, in file order
PassingRecords ==
    SelectSeq(raw_records, LAMBDA rec : Passes(MetricRow(rec, 1), min_len, min_q))

\* C1: the FASTQ blocks written are exactly the blocks of the records whose
\* own metric row passes both thresholds, records that share an identifier
\* being kept or dropped each on its own, and there are as many blocks as
\* rows in the filtered table.
C1_FastqHoldsExactlyThePassingRecords ==
    pc = "done" =>
        /\ filtered_fastq = [i \in 1..Len(PassingRecords) |-> FastqBlock(PassingRecords[i])]
        /\ Len(filtered_fastq) = Len(filtered_df.rows)

HasEmptyRecord == \E i \in 1..Len(raw_records) : Len(raw_records[i].seq) = 0

\* C3: a record with an empty sequence gets a row with length 0,
\* avg_quality 0 and gc_content 0, and computing the metrics of a file that
\* holds such a record never ends in a division by zero.
C3_EmptySequenceYieldsZeroRow ==
    (pc \notin {"uploaded", "parsed"} /\ HasEmptyRecord) =>
        /\ error # "ZeroDivisionError"
        /\ Len(df.rows) = Len(raw_records)
        /\ \A i \in 1..Len(raw_records) :
            Len(raw_records[i].seq) = 0 =>
                /\ df.rows[i].length = 0
                /\ df.rows[i].avg_quality[1] = 0
                /\ df.rows[i].gc_content[1] = 0

\* C4: when the file holds no record, nothing is raised while the metrics
\* and the summary statistics are computed.
C4_EmptyInputDoesNotRaise ==
    (pc \notin {"uploaded", "parsed"} /\ raw_records = <<>>) =>
        /\ pc # "error"
        /\ error = None

\* C5: get_n50 returns 0 for the empty list and otherwise a value between
\* the smallest and the largest length.
C5_N50WithinMinMax ==
    n50pc = "done" =>
        IF lengths = <<>> THEN n50 = 0
        ELSE MinOf(lengths) <= n50 /\ n50 <= MaxOf(lengths)

C5_N50AboveMin ==
    /\ n50pc = "done"
    /\ lengths # <<>>
    /\ MinOf(lengths) < n50
    /\ n50 <= MaxOf(lengths)

Occurrences(s, x) == Cardinality({i \in 1..Len(s) : s[i] = x})

\* the descending arrangement of ls, stated by what it is
Descending(ls) ==
    CHOOSE s \in [1..Len(ls) -> {ls[i] : i \in 1..Len(ls)}] :
        /\ \A i \in 1..(Len(ls) - 1) : s[i] >= s[i + 1]
        /\ \A i \in 1..Len(ls) : Occurrences(s, ls[i]) = Occurrences(ls, ls[i])

\* the first position of s whose running sum is at least half the total
HalfwayPosition(s) ==
    CHOOSE k \in 1..Len(s) :
        /\ 2 * SumSeq(SubSeq(s, 1, k)) >= SumSeq(s)
        /\ \A j \in 1..(k - 1) : 2 * SumSeq(SubSeq(s, 1, j)) < SumSeq(s)

\* C6: get_n50 returns the length at the first position of the descending
\* lengths where twice the running sum reaches the total; a single length
\* is returned as it is, and [100, 200, 300] gives 300.
C6_N50IsLengthAtHalfway ==
    n50pc = "done" =>
        /\ lengths # <<>> => n50 = Descending(lengths)[HalfwayPosition(Descending(lengths))]
        /\ Len(lengths) = 1 => n50 = lengths[1]
        /\ lengths = <<100, 200, 300>> => n50 = 300

C6_EndToEndLengths ==
    /\ n50pc = "done"
    /\ lengths = <<100, 200, 300>>
    /\ n50 = 300

Reorderings(ls) ==
    {[i \in 1..Len(ls) |-> ls[p[i]]] :
        p \in {q \in [1..Len(ls) -> 1..Len(ls)] :
                  \A a, b \in 1..Len(ls) : a # b => q[a] # q[b]}}

\* C7: get_n50 returns the same value on every reordering of its list.
C7_N50PermutationInvariant ==
    n50pc = "done" => \A p \in Reorderings(lengths) : get_n50(p) = n50

C7_UnsortedInput ==
    /\ n50pc = "done"
    /\ Len(lengths) >= 3
    /\ lengths[1] < lengths[2]
    /\ lengths[2] < lengths[3]

\* C8: filtering the filtered table again with the same thresholds gives
\* the same rows in the same order.
C8_FilterIdempotent ==
    pc \in {"filtered", "done"} =>
        FilterRows(filtered_df.rows, min_len, min_q) = filtered_df.rows

C8_FirstRowDropped ==
    /\ pc = "done"
    /\ Len(filtered_df.rows) >= 1
    /\ filtered_df.rows[1].index > 0

\* C9: the filtered rows and the FASTQ blocks are in file order, and the
\* i-th FASTQ block is the record of the i-th CSV row.
C9_OutputsInFileOrderAndAligned ==
    pc = "done" =>
        /\ \A i, j \in 1..Len(filtered_df.rows) :
            i < j => filtered_df.rows[i].index < filtered_df.rows[j].index
        /\ Len(filtered_csv) = Len(filtered_df.rows)
        /\ Len(filtered_fastq) = Len(filtered_csv)
        /\ \A i \in 1..Len(filtered_csv) :
            /\ filtered_csv[i][1] = filtered_df.rows[i].id
            /\ filtered_fastq[i] = FastqBlock(raw_records[filtered_df.rows[i].index + 1])

UpperCase(c) ==
    CASE c = "a" -> "A"
      [] c = "c" -> "C"
      [] c = "g" -> "G"
      [] c = "t" -> "T"
      [] c = "n" -> "N"
      [] OTHER -> c

Upper(seq) == [i \in 1..Len(seq) |-> UpperCase(seq[i])]

\* C10: the gc_content of a row is that of its sequence in uppercase, and
\* lies in [0, 100].
C10_GcContentIgnoresCase ==
    pc \in Ran =>
        \A i \in 1..Len(df.rows) :
            LET g == df.rows[i].gc_content
                u == Gc(Upper(raw_records[i].seq))
            IN /\ g[1] * u[2] = u[1] * g[2]
               /\ 0 <= g[1]
               /\ g[1] <= 100 * g[2]

====
